---- MODULE Spec2Model ----
(***************************************************************************)
(* Model of Deduplicate.process (src/pipeline.py, lines 143-210): one pass *)
(* over a WARC archive that rewrites response records whose payload digest *)
(* was already seen into revisit records (Spec, FairSpec); and of the user *)
(* lookup of WgetArgs.realize (lines 286-339), under SpecRealize.          *)
(*                                                                         *)
(* Text is modelled as a sequence of tokens.  A token stands for a fixed   *)
(* piece of text (Text-to-bytes is Width); the token alphabet is chosen so *)
(* that no token's text overlaps the searched text 'Content-Length: 0'     *)
(* other than as whole tokens, so that Python's substring test is the      *)
(* contiguous-subsequence test on tokens.                                  *)
(***************************************************************************)
EXTENDS Integers, Sequences, FiniteSets, TLC

\* Deduplicate.process
VARIABLES archive, pc, pos, hashes, output, dedup_log, logfile, error,
          open_streams
\* WgetArgs.realize
VARIABLES rpc, images, image, tries, requests, response, outcomes, targets,
          raised

dvars == <<archive, pc, pos, hashes, output, dedup_log, logfile, error,
           open_streams>>
rvars == <<rpc, images, image, tries, requests, response, outcomes, targets,
           raised>>
vars == <<dvars, rvars>>

-----------------------------------------------------------------------------
(* Bounds *)

\* number of records that follow the leading info record
MaxRecords == 3

\* number of images named by an item
MaxImages == 2

-----------------------------------------------------------------------------
(* Text *)

CRLF == "\r\n"
LF == "\n"
SP == " "
STATUS == "HTTP/1.1 200 OK"
COLON == ":"
SEP == ": "

\* len() of the text a token stands for
Width(t) ==
  CASE t = CRLF -> 2
    [] t = LF -> 1
    [] t = SP -> 1
    [] t = STATUS -> 15
    [] t = SEP -> 2
    [] t = "X-" -> 2
    [] t \in {"Content-Length", "content-length", "CONTENT-LENGTH", "Content-length"} -> 14
    [] t \in {"0", "5"} -> 1
    [] t = "17" -> 2
    [] t = "HELLO" -> 5
    [] OTHER -> 1

RECURSIVE ByteLen(_)
\* len(s) for a str s
ByteLen(s) == IF s = <<>> THEN 0 ELSE Width(Head(s)) + ByteLen(Tail(s))

RECURSIVE Str(_)
\* str(n) for n >= 0: the decimal digits of n, most significant first
Str(n) == IF n < 10 THEN <<n>> ELSE Append(Str(n \div 10), n % 10)

RECURSIVE SplitFrom(_, _, _)
SplitFrom(s, i, cur) ==
  IF i > Len(s) THEN (IF cur = <<>> THEN <<>> ELSE <<cur>>)
  ELSE IF s[i] \in {CRLF, LF} THEN <<cur>> \o SplitFrom(s, i + 1, <<>>)
  ELSE SplitFrom(s, i + 1, Append(cur, s[i]))

\* s.splitlines(): the lines of s without their terminators
SplitLines(s) == SplitFrom(s, 1, <<>>)

RECURSIVE LStrip(_)
LStrip(l) == IF l # <<>> /\ Head(l) = SP THEN LStrip(Tail(l)) ELSE l

RECURSIVE RStrip(_)
RStrip(l) ==
  IF l # <<>> /\ l[Len(l)] = SP THEN RStrip(SubSeq(l, 1, Len(l) - 1)) ELSE l

\* line.strip()
Strip(l) == RStrip(LStrip(l))

RECURSIVE Join(_, _)
\* sep.join(ls)
Join(sep, ls) ==
  IF ls = <<>> THEN <<>>
  ELSE IF Len(ls) = 1 THEN ls[1]
  ELSE ls[1] \o <<sep>> \o Join(sep, Tail(ls))

\* needle in s
Contains(needle, s) ==
  \E i \in 1..(Len(s) - Len(needle) + 1) :
     SubSeq(s, i, i + Len(needle) - 1) = needle

-----------------------------------------------------------------------------
(* Records: a header (field name -> value, DOMAIN = the fields present) and *)
(* a payload.                                                              *)

\* header[name] = value
Put(h, name, value) ==
  [f \in DOMAIN h \cup {name} |-> IF f = name THEN value ELSE h[f]]

\* del header[name], for a name that is present
Del(h, name) == [f \in DOMAIN h \ {name} |-> h[f]]

\* header.get(name): None when the field is absent
None == <<"None">>
Get(h, name) == IF name \in DOMAIN h THEN h[name] ELSE None

\* item["warc_file_base"]
warc_file_base == "flickr-base"

\* a SHA-1 digest field computed over a text; the digest of a text is
\* modelled by the text itself (no collisions)
DigestOf(text) == <<"sha1", COLON, text>>

BaseHeader(type, i, date, payload) ==
  [f \in {"WARC-Type", "WARC-Record-ID", "WARC-Date", "Content-Length"} |->
     CASE f = "WARC-Type" -> type
       [] f = "WARC-Record-ID" -> <<"urn:uuid:", i>>
       [] f = "WARC-Date" -> date
       [] f = "Content-Length" -> Str(ByteLen(payload))]

WithBlockDigest(h, payload, bd) ==
  IF bd THEN Put(h, "WARC-Block-Digest", DigestOf(payload)) ELSE h

\* the leading warcinfo record as the producer writes it
InfoPayload == <<"software", SEP, "Wget", CRLF>>
InfoRecord(bd) ==
  [header |-> WithBlockDigest(
                Put(BaseHeader("warcinfo", 1, "d0", InfoPayload),
                    "WARC-Filename", <<warc_file_base, ".warc.gz">>),
                InfoPayload, bd),
   payload |-> InfoPayload]

\* embedded HTTP responses carried as payloads
PBody == <<STATUS, CRLF, "Content-Length", SEP, "5", CRLF, CRLF, "HELLO">>
PZero == <<STATUS, CRLF, "Content-Length", SEP, "0", CRLF, CRLF>>
PZeroLower == <<STATUS, CRLF, "content-length", SEP, "0", CRLF, CRLF>>
PZeroUpper == <<STATUS, CRLF, "CONTENT-LENGTH", SEP, "0", CRLF, CRLF>>
\* another field whose name ends in Content-Length, and a 5-byte body
PXField == <<STATUS, CRLF, "X-", "Content-Length", SEP, "0", CRLF,
             "Content-Length", SEP, "5", CRLF, CRLF, "HELLO">>
\* bare LF line ends, padded header line, and a body that reads
\* 'Content-Length: 0'
PLoose == <<STATUS, LF, SP, "Content-Length", SEP, "17", SP, LF, LF,
            "Content-Length", SEP, "0">>
\* a declared empty body behind bare LF line ends
PZeroLoose == <<STATUS, LF, "Content-Length", SEP, "0", LF, LF>>
\* responses cut off inside the header block: no empty line follows
PNoBlank == <<STATUS, CRLF, "Content-Length", SEP, "5">>
PNoBlankZero == <<STATUS, CRLF, "Content-Length", SEP, "0">>
PRequest == <<"GET / HTTP/1.1", CRLF, CRLF>>

\* the records an archive is drawn from: type, date, target, payload digest
\* (None: no WARC-Payload-Digest field), block digest present, payload
Templates ==
  << <<"response", "d1", "http://a/", <<"sha1", COLON, "abc">>, TRUE, PBody>>,
     <<"response", "d2", "http://b/", <<"sha1", COLON, "abc">>, TRUE, PZero>>,
     <<"response", "d1", "http://c/", <<"sha1", COLON, "abc">>, TRUE, PZeroLower>>,
     <<"response", "d2", "http://d/", <<"sha1", COLON, "abc">>, TRUE, PZeroUpper>>,
     <<"response", "d1", "http://e/", <<"sha1", COLON, "abc">>, TRUE, PXField>>,
     <<"response", "d2", "http://f/", <<"sha1", COLON, "abc">>, TRUE, PLoose>>,
     <<"response", "d1", "http://g/", <<"sha1", COLON, "xyz">>, TRUE, PBody>>,
     <<"response", "d2", "http://j/", <<"sha1", COLON, "xyz">>, TRUE, PZeroLoose>>,
     <<"response", "d1", "http://k/", <<"sha1", COLON, "xyz">>, TRUE, PNoBlank>>,
     <<"response", "d2", "http://l/", <<"sha1", COLON, "xyz">>, TRUE, PNoBlankZero>>,
     <<"response", "d2", "http://h/", <<"sha1", COLON, "abc">>, FALSE, PBody>>,
     <<"response", "d1", "http://i/", None, TRUE, PBody>>,
     <<"request", "d2", "http://a/", None, TRUE, PRequest>> >>

\* the record at position i of an archive, built from template t
MakeRecord(t, i) ==
  LET h0 == Put(BaseHeader(t[1], i, t[2], t[6]), "WARC-Target-URI", t[3])
      h1 == IF t[4] = None THEN h0 ELSE Put(h0, "WARC-Payload-Digest", t[4])
  IN  [header |-> WithBlockDigest(h1, t[6], t[5]), payload |-> t[6]]

\* an input archive: an info record followed by the records built from the
\* templates numbered in ts
Archive(bd, ts) ==
  <<InfoRecord(bd)>> \o [i \in 1..Len(ts) |-> MakeRecord(Templates[ts[i]], i + 1)]

-----------------------------------------------------------------------------
(* The calls into the warc library *)

\* warc.WARCRecord(header=header, payload=payload, defaults=defaults): with
\* defaults the constructor fills in Content-Length and WARC-Payload-Digest
\* when the header lacks them; without, header and payload are kept as given
WARCRecord(header, payload, defaults) ==
  LET h1 == IF defaults /\ "Content-Length" \notin DOMAIN header
              THEN Put(header, "Content-Length", Str(ByteLen(payload)))
              ELSE header
      h2 == IF defaults /\ "WARC-Payload-Digest" \notin DOMAIN h1
              THEN Put(h1, "WARC-Payload-Digest", DigestOf(payload))
              ELSE h1
  IN  [header |-> h2, payload |-> payload]

\* (mutation) the position runs one record ahead
TellAhead == pos + 1

\* (mutation) the file is longer than the records in it
warc_input_sizePadded == Len(archive) + 1

\* os.path.getsize(input_filename) and warc_input.tell(), in whole records
\* (each record is one compressed member of the file)
warc_input_size == Len(archive)
Tell == pos

-----------------------------------------------------------------------------
(* Deduplicate.process, record by record *)

\* record.header.get('WARC-Payload-Digest').split(':', 1)[1]
HashOf(record) ==
  LET v == Get(record.header, "WARC-Payload-Digest")
      colons == {i \in 1..Len(v) : v[i] = COLON}
      first == CHOOSE i \in colons : \A j \in colons : i <= j
  IN  IF v = None THEN [ok |-> FALSE, error |-> "AttributeError"]
      ELSE IF colons = {} THEN [ok |-> FALSE, error |-> "IndexError"]
      ELSE [ok |-> TRUE, hash |-> SubSeq(v, first + 1, Len(v))]

RECURSIVE UntilBlank(_)
\* the loop over payload_.splitlines(): the lines before the first empty one,
\* each stripped
UntilBlank(lines) ==
  IF lines = <<>> \/ Head(lines) = <<>> THEN <<>>
  ELSE <<Strip(Head(lines))>> \o UntilBlank(Tail(lines))

\* payload = '\r\n'.join(headers) + '\r\n'*2
HeaderBlock(payload_) == Join(CRLF, UntilBlank(SplitLines(payload_))) \o <<CRLF, CRLF>>

\* (mutation) the test for an empty body is dropped
ZeroLengthNever(payload) == FALSE

\* 'Content-Length: 0' in payload or 'content-length: 0' in payload
ZeroLength(payload) ==
  \/ Contains(<<"Content-Length", SEP, "0">>, payload)
  \/ Contains(<<"content-length", SEP, "0">>, payload)

\* (record id, date, target URI) of a record
Entry(record) ==
  <<Get(record.header, "WARC-Record-ID"),
    Get(record.header, "WARC-Date"),
    Get(record.header, "WARC-Target-URI")>>

\* (mutation) Content-Length is left as it was read
RevisitHeaderStaleLength(header, payload, orig) ==
  LET h2 == Put(header, "WARC-Refers-To", orig[1])
      h3 == Put(h2, "WARC-Refers-To-Date", orig[2])
      h4 == Put(h3, "WARC-Refers-To-Target-URI", orig[3])
      h5 == Put(h4, "WARC-Type", "revisit")
      h6 == Put(h5, "WARC-Truncated", "length")
  IN  Put(h6, "WARC-Profile",
          "http://netpreserve.org/warc/1.0/revisit/identical-payload-digest")

\* (mutation) WARC-Refers-To is taken from the duplicate itself
RevisitHeaderSelf(header, payload, orig) ==
  LET h1 == Put(header, "Content-Length", Str(ByteLen(payload)))
      h2 == Put(h1, "WARC-Refers-To", header["WARC-Record-ID"])
      h3 == Put(h2, "WARC-Refers-To-Date", orig[2])
      h4 == Put(h3, "WARC-Refers-To-Target-URI", orig[3])
      h5 == Put(h4, "WARC-Type", "revisit")
      h6 == Put(h5, "WARC-Truncated", "length")
  IN  Put(h6, "WARC-Profile",
          "http://netpreserve.org/warc/1.0/revisit/identical-payload-digest")

\* the header assignments that turn a duplicate into a revisit record
RevisitHeader(header, payload, orig) ==
  LET h1 == Put(header, "Content-Length", Str(ByteLen(payload)))
      h2 == Put(h1, "WARC-Refers-To", orig[1])
      h3 == Put(h2, "WARC-Refers-To-Date", orig[2])
      h4 == Put(h3, "WARC-Refers-To-Target-URI", orig[3])
      h5 == Put(h4, "WARC-Type", "revisit")
      h6 == Put(h5, "WARC-Truncated", "length")
  IN  Put(h6, "WARC-Profile",
          "http://netpreserve.org/warc/1.0/revisit/identical-payload-digest")

\* (mutation) the original's date and target URI change places
LogLineSwapped(header, orig) ==
  <<"WARC-Record-ID:", header["WARC-Record-ID"],
    "; WARC-Target-URI:", header["WARC-Target-URI"],
    "; WARC-Date:", header["WARC-Date"],
    " duplicate of WARC-Record-ID:", orig[1],
    "; WARC-Target-URI:", orig[2],
    "; WARC-Date:", orig[3], CRLF>>

\* the line appended to dedup_log for a duplicate
LogLine(header, orig) ==
  <<"WARC-Record-ID:", header["WARC-Record-ID"],
    "; WARC-Target-URI:", header["WARC-Target-URI"],
    "; WARC-Date:", header["WARC-Date"],
    " duplicate of WARC-Record-ID:", orig[1],
    "; WARC-Target-URI:", orig[3],
    "; WARC-Date:", orig[2], CRLF>>

\* (mutation) the lookup never finds a digest
SeenNever(hash_, hs) == FALSE

\* hash_ in hashes
Seen(hash_, hs) == hash_ \in DOMAIN hs

\* hashes[hash_] = entry
Store(hs, hash_, entry) ==
  [k \in DOMAIN hs \cup {hash_} |-> IF k = hash_ THEN entry ELSE hs[k]]

\* (mutation) the block digest of the replaced payload is kept
RevisitKeepDigest(record, payload, orig) ==
  LET header == RevisitHeader(record.header, payload, orig)
  IN  [record |-> WARCRecord(header, payload, FALSE),
       line |-> LogLine(header, orig)]

\* a duplicate with a body: the revisit record and its log line
Revisit(record, payload, orig) ==
  LET header == Del(RevisitHeader(record.header, payload, orig), "WARC-Block-Digest")
  IN  [record |-> WARCRecord(header, payload, FALSE),
       line |-> LogLine(header, orig)]

\* (mutation) the rebuilt header block is written in place of the payload
KeptTrimmed(record, payload_, payload) == WARCRecord(record.header, payload, FALSE)

\* a duplicate without a body, given its payload (payload_) and the header
\* block rebuilt from it (payload)
Kept(record, payload_, payload) == WARCRecord(record.header, payload_, FALSE)

\* (mutation) defaults=False is forgotten
PassedDefaults(record) == WARCRecord(record.header, record.payload, TRUE)

\* a record that is written as it was read
Passed(record) == WARCRecord(record.header, record.payload, FALSE)

\* the body of the for loop up to write_record: the record to write, the
\* index and the log after it, or the exception that ends the pass
Transform(record, hs, log) ==
  IF record.header["WARC-Type"] = "response"
  THEN LET h == HashOf(record) IN
    IF ~h.ok THEN [ok |-> FALSE, error |-> h.error]
    ELSE IF Seen(h.hash, hs)
    THEN LET payload_ == record.payload
             payload == HeaderBlock(payload_)
             orig == hs[h.hash]
         IN  IF ~ZeroLength(payload)
             THEN IF "WARC-Block-Digest" \notin DOMAIN record.header
                  THEN [ok |-> FALSE, error |-> "KeyError"]
                  ELSE [ok |-> TRUE,
                        record |-> Revisit(record, payload, orig).record,
                        hashes |-> hs,
                        log |-> Append(log, Revisit(record, payload, orig).line)]
             ELSE [ok |-> TRUE, record |-> Kept(record, payload_, payload),
                   hashes |-> hs, log |-> log]
    ELSE [ok |-> TRUE, record |-> Passed(record),
          hashes |-> Store(hs, h.hash, Entry(record)), log |-> log]
  ELSE [ok |-> TRUE, record |-> Passed(record), hashes |-> hs, log |-> log]

\* (mutation) the block digest is kept
InfoHeaderKeepDigest(header) ==
  Put(header, "WARC-Filename", <<warc_file_base, "-deduplicated.warc.gz">>)

\* the info record as it is written: WARC-Filename replaced, the block
\* digest deleted
InfoHeader(header) ==
  Del(Put(header, "WARC-Filename", <<warc_file_base, "-deduplicated.warc.gz">>),
      "WARC-Block-Digest")

-----------------------------------------------------------------------------
(* The pass *)

NoLog == [written |-> FALSE, text |-> <<>>]

\* WgetArgs.realize is not running
NoResponse == [status |-> 0, text |-> "none"]
RealizeIdle ==
  /\ rpc = "idle"
  /\ images = 0
  /\ image = 0
  /\ raised = "none"
  /\ tries = 0
  /\ requests = 0
  /\ response = NoResponse
  /\ outcomes = << >>
  /\ targets = << >>

Init ==
  /\ \E bd \in BOOLEAN, n \in 0..MaxRecords :
        \E ts \in [1..n -> 1..Len(Templates)] : archive = Archive(bd, ts)
  /\ pc = "info"
  /\ pos = 0
  /\ hashes = << >>
  /\ output = << >>
  /\ dedup_log = << >>
  /\ logfile = NoLog
  /\ error = "none"
  /\ open_streams = {"warc_input", "warc_output"}
  /\ RealizeIdle

\* read the info record, rewrite its header and write it
ReadInfo ==
  /\ pc = "info"
  /\ pos' = 1
  /\ LET info_record == archive[1] IN
       IF "WARC-Block-Digest" \in DOMAIN info_record.header
       THEN /\ output' = Append(output, WARCRecord(InfoHeader(info_record.header),
                                                   info_record.payload, TRUE))
            /\ pc' = "while"
            /\ error' = error
       ELSE /\ output' = output
            /\ pc' = "failed"
            /\ error' = "KeyError"
  /\ UNCHANGED <<archive, hashes, dedup_log, logfile, open_streams>>
  /\ UNCHANGED rvars

\* while warc_input_size > warc_input.tell()
WhileTest ==
  /\ pc = "while"
  /\ pc' = IF warc_input_size > Tell THEN "for" ELSE "log"
  /\ UNCHANGED <<archive, pos, hashes, output, dedup_log, logfile, error,
                 open_streams>>
  /\ UNCHANGED rvars

\* one iteration of for record in warc_input
ForRecord ==
  /\ pc = "for"
  /\ pos < Len(archive)
  /\ pos' = pos + 1
  /\ LET r == Transform(archive[pos + 1], hashes, dedup_log) IN
       IF r.ok
       THEN /\ hashes' = r.hashes
            /\ dedup_log' = r.log
            /\ output' = Append(output, r.record)
            /\ pc' = pc
            /\ error' = error
       ELSE /\ pc' = "failed"
            /\ error' = r.error
            /\ UNCHANGED <<hashes, dedup_log, output>>
  /\ UNCHANGED <<archive, logfile, open_streams>>
  /\ UNCHANGED rvars

\* the iterator ends: at the end of the input, or earlier (the reader may
\* stop between two compressed members, which is what the enclosing while
\* loop resumes from)
ForEnd ==
  /\ pc = "for"
  /\ pc' = "while"
  /\ UNCHANGED <<archive, pos, hashes, output, dedup_log, logfile, error,
                 open_streams>>
  /\ UNCHANGED rvars

\* (mutation) the log is also written once an exception has ended the loop
WriteLogOnError ==
  /\ pc \in {"log", "failed"}
  /\ logfile' = [written |-> TRUE, text |-> Join(CRLF, dedup_log)]
  /\ pc' = "done"
  /\ open_streams' = open_streams
  /\ UNCHANGED <<archive, pos, hashes, output, dedup_log, error>>
  /\ UNCHANGED rvars

\* write deduplicate.log: the with block opens the file, writes it and
\* closes it; warc_input and warc_output are closed nowhere in process
WriteLog ==
  /\ pc = "log"
  /\ logfile' = [written |-> TRUE, text |-> Join(CRLF, dedup_log)]
  /\ pc' = "done"
  /\ open_streams' = (open_streams \cup {"deduplicate.log"}) \ {"deduplicate.log"}
  /\ UNCHANGED <<archive, pos, hashes, output, dedup_log, error>>
  /\ UNCHANGED rvars

Next == ReadInfo \/ WhileTest \/ ForRecord \/ ForEnd \/ WriteLog

Spec == Init /\ [][Next]_vars

\* a step of process: Next is enabled exactly where pc is one of these, and
\* each of its steps changes pc or pos
Running ==
  /\ pc \in {"info", "while", "for", "log"}
  /\ pc' \in {"while", "for", "log", "done", "failed"}
  /\ pos' \in {pos, pos + 1}

\* a step that reads a record: the steps of ForRecord, enabled where it is
Reading == pc = "for" /\ pos < Len(archive) /\ pos' = pos + 1 /\ pc' \in {pc, "failed"}

\* process runs on until it returns or raises, and an iterator started with
\* records left to read yields one before it ends
FairSpec == Spec /\ WF_<<pc, pos>>(Running) /\ SF_<<pc, pos>>(Reading)

-----------------------------------------------------------------------------
(* WgetArgs.realize: the lookup of the user of each image of an item *)

\* while tries < 15
MaxTries == 15

\* what requests.get may return: a status code and a body that is empty,
\* a page with the og:url meta element, or any other text
Responses == [status : {200, 404, 418, 500}, text : {"", "page", "other"}]

\* photo_user_response.status_code == 418
IsTeapot(r) == r.status = 418

\* (mutation) the exemption of 404 is missing
IsWrongAlso404(r) == r.text = "" \/ r.status # 200

\* (len(text) == 0 or status_code != 200) and not status_code == 404
IsWrong(r) == (r.text = "" \/ r.status # 200) /\ ~(r.status = 404)

\* Deduplicate.process is not running
DedupIdle ==
  /\ archive = << >>
  /\ pc = "idle"
  /\ pos = 0
  /\ hashes = << >>
  /\ output = << >>
  /\ dedup_log = << >>
  /\ logfile = NoLog
  /\ error = "none"
  /\ open_streams = {}

\* realize at the first image: images = item_value.split(','), tries = 0
InitRealize ==
  /\ DedupIdle
  /\ images \in 1..MaxImages
  /\ image = 1
  /\ rpc = "loop"
  /\ tries = 0
  /\ requests = 0
  /\ response = NoResponse
  /\ outcomes = << >>
  /\ targets = << >>
  /\ raised = "none"

\* one pass of the while loop: the request and what its status leads to
Lookup ==
  /\ rpc = "loop"
  /\ tries < MaxTries
  /\ \E r \in Responses :
        /\ response' = r
        /\ requests' = requests + 1
        /\ IF IsTeapot(r)
             THEN tries' = tries + 1 /\ rpc' = rpc /\ raised' = raised
           ELSE IF IsWrong(r)
             THEN tries' = tries /\ rpc' = "raised"
                  /\ raised' = "Something went wrong... ABORTING"
             ELSE tries' = tries /\ rpc' = "found" /\ raised' = raised
  /\ UNCHANGED <<images, image, outcomes, targets>>
  /\ UNCHANGED dvars

\* the else of the while loop: tries has reached 15
GiveUp ==
  /\ rpc = "loop"
  /\ ~(tries < MaxTries)
  /\ rpc' = "raised"
  /\ raised' = "Failed to brew coffee with flickr... :("
  /\ UNCHANGED <<images, image, tries, requests, response, outcomes, targets>>
  /\ UNCHANGED dvars

\* after the loop: a 404 skips the image, a page adds its fetch targets
\* (re.search finds nothing in any other text), then on to the next image
AfterLookup ==
  /\ rpc = "found"
  /\ IF response.status # 404 /\ response.text # "page"
       THEN /\ rpc' = "raised"
            /\ raised' = "AttributeError"
            /\ UNCHANGED <<image, tries, requests, outcomes, targets>>
       ELSE /\ outcomes' = Append(outcomes, response.status)
            /\ targets' = IF response.status = 404 THEN targets
                                                    ELSE Append(targets, image)
            /\ raised' = raised
            /\ IF image < images
                 THEN image' = image + 1 /\ tries' = 0 /\ requests' = 0
                      /\ rpc' = "loop"
                 ELSE image' = image /\ tries' = tries /\ requests' = requests
                      /\ rpc' = "returned"
  /\ UNCHANGED <<images, response>>
  /\ UNCHANGED dvars

NextRealize == Lookup \/ GiveUp \/ AfterLookup

SpecRealize == InitRealize /\ [][NextRealize]_vars

-----------------------------------------------------------------------------
(* What the claims speak of, stated on the input archive *)

IsResponse(r) == r.header["WARC-Type"] = "response"
HasDigest(r) == "WARC-Payload-Digest" \in DOMAIN r.header

\* the value part of a payload digest field 'algorithm:value'
DigestValue(r) == r.header["WARC-Payload-Digest"][3]

\* the responses with a payload digest, after the info record
Indexable(i) == i >= 2 /\ IsResponse(archive[i]) /\ HasDigest(archive[i])

\* the position of the first response that carries the digest of record i
FirstOf(i) ==
  CHOOSE j \in 2..i :
    /\ Indexable(j) /\ DigestValue(archive[j]) = DigestValue(archive[i])
    /\ \A k \in 2..(j - 1) :
         ~(Indexable(k) /\ DigestValue(archive[k]) = DigestValue(archive[i]))

IsDuplicate(i) == Indexable(i) /\ FirstOf(i) < i
IsFirst(i) == Indexable(i) /\ FirstOf(i) = i

Lower(t) ==
  IF t \in {"Content-Length", "content-length", "CONTENT-LENGTH", "Content-length"}
    THEN "content-length" ELSE t

RECURSIVE BeforeBlank(_)
BeforeBlank(lines) ==
  IF lines = <<>> \/ Head(lines) = <<>> THEN <<>>
  ELSE <<Head(lines)>> \o BeforeBlank(Tail(lines))

\* the embedded header block has a content-length field, in any letter
\* case, whose value is 0
DeclaresZero(payload) ==
  LET ls == BeforeBlank(SplitLines(payload)) IN
    \E n \in 1..Len(ls) :
       LET l == Strip(ls[n]) IN
         Len(l) = 3 /\ Lower(l[1]) = "content-length" /\ l[2] = SEP /\ l[3] = "0"

RECURSIVE Decimal(_)
\* the number a decimal digit string denotes
Decimal(ds) ==
  IF ds = <<>> THEN 0 ELSE 10 * Decimal(SubSeq(ds, 1, Len(ds) - 1)) + ds[Len(ds)]

Written(i) == i \in 1..Len(output)
IsRevisit(r) == r.header["WARC-Type"] = "revisit"
RefFields == {"WARC-Refers-To", "WARC-Refers-To-Date", "WARC-Refers-To-Target-URI"}

RefersTo(r, orig) ==
  /\ RefFields \subseteq DOMAIN r.header
  /\ r.header["WARC-Refers-To"] = orig.header["WARC-Record-ID"]
  /\ r.header["WARC-Refers-To-Date"] = orig.header["WARC-Date"]
  /\ r.header["WARC-Refers-To-Target-URI"] = orig.header["WARC-Target-URI"]

-----------------------------------------------------------------------------
\* C1: every written duplicate response whose embedded header block does not
\* declare a zero-length body is a revisit record that refers to the record
\* id, date and target URI of the first response with its digest, and that
\* first response is written unchanged.
C1_DuplicateBecomesRevisit ==
  \A i \in 2..Len(output) :
     (IsDuplicate(i) /\ ~DeclaresZero(archive[i].payload)) =>
        /\ IsRevisit(output[i])
        /\ RefersTo(output[i], archive[FirstOf(i)])
        /\ output[FirstOf(i)] = archive[FirstOf(i)]

-----------------------------------------------------------------------------
\* C2: first occurrence wins: in every step of a pass each digest in the
\* index stays in it with the same (record id, date, target URI).
C2_FirstOccurrenceWins ==
  [][\A k \in DOMAIN hashes : k \in DOMAIN hashes' /\ hashes'[k] = hashes[k]]_vars

\* C2, reached: a duplicate whose date and target URI differ from those of the
\* indexed first occurrence has been processed
C2_Witness ==
  /\ pc # "failed"
  /\ \E i \in 2..pos :
        /\ IsDuplicate(i)
        /\ archive[i].header["WARC-Date"] # archive[FirstOf(i)].header["WARC-Date"]
        /\ archive[i].header["WARC-Target-URI"]
             # archive[FirstOf(i)].header["WARC-Target-URI"]
        /\ hashes[<<DigestValue(archive[i])>>] = Entry(archive[FirstOf(i)])

-----------------------------------------------------------------------------
AddedFields == RefFields \cup {"WARC-Truncated", "WARC-Profile"}

\* C3: a written duplicate whose embedded header block declares a
\* zero-length body keeps WARC-Type response, has none of the revisit fields
\* and no audit entry names it.
C3_ZeroLengthKeepsKind ==
  \A i \in 2..Len(output) :
     (IsDuplicate(i) /\ DeclaresZero(archive[i].payload)) =>
        /\ output[i].header["WARC-Type"] = "response"
        /\ DOMAIN output[i].header \cap AddedFields = {}
        /\ \A n \in 1..Len(dedup_log) :
              dedup_log[n][2] # archive[i].header["WARC-Record-ID"]

-----------------------------------------------------------------------------
\* C4 as stated: a written duplicate whose embedded header block declares a
\* zero-length body has the rebuilt header block as its payload and the
\* length of that block as its Content-Length.
C4_ZeroLengthTrimmed ==
  \A i \in 2..Len(output) :
     (IsDuplicate(i) /\ DeclaresZero(archive[i].payload)) =>
        /\ output[i].payload = HeaderBlock(archive[i].payload)
        /\ Decimal(output[i].header["Content-Length"])
             = ByteLen(HeaderBlock(archive[i].payload))

\* the embedded header block has the field 'Content-Length: 0' or
\* 'content-length: 0'
DeclaresZeroSpelled(payload) ==
  LET ls == BeforeBlank(SplitLines(payload)) IN
    \E n \in 1..Len(ls) :
       LET l == Strip(ls[n]) IN
         Len(l) = 3 /\ l[1] \in {"Content-Length", "content-length"}
                    /\ l[2] = SEP /\ l[3] = "0"

\* C4, amended: a written duplicate whose embedded header block declares a
\* zero-length body as 'Content-Length: 0' or 'content-length: 0' has the
\* payload and the Content-Length it was read with.
C4_ZeroLengthUntouched ==
  \A i \in 2..Len(output) :
     (IsDuplicate(i) /\ DeclaresZeroSpelled(archive[i].payload)) =>
        /\ output[i].payload = archive[i].payload
        /\ output[i].header["Content-Length"] = archive[i].header["Content-Length"]

\* C4, reached: such a duplicate, whose payload is not the rebuilt header
\* block, has been written
C4_Witness ==
  \E i \in 2..Len(output) :
     /\ IsDuplicate(i) /\ DeclaresZeroSpelled(archive[i].payload)
     /\ archive[i].payload # HeaderBlock(archive[i].payload)

-----------------------------------------------------------------------------
\* C5: every written record has a Content-Length equal to the byte length
\* of the payload it is written with (the records read have).
C5_ContentLength ==
  \A i \in 1..Len(output) :
     /\ "Content-Length" \in DOMAIN output[i].header
     /\ Decimal(output[i].header["Content-Length"]) = ByteLen(output[i].payload)

\* C5, reached: the info record, a first occurrence, a revisit with a
\* shortened payload and an untouched duplicate have all been written
C5_Witness ==
  /\ \E i \in 2..Len(output) :
        IsRevisit(output[i])
        /\ ByteLen(output[i].payload) # ByteLen(archive[i].payload)
  /\ \E i \in 2..Len(output) : IsDuplicate(i) /\ output[i] = archive[i]
  /\ \E i \in 2..Len(output) : IsFirst(i)

-----------------------------------------------------------------------------
\* the written records that were rewritten into revisits, in archive order
RECURSIVE RevisitsUpTo(_)
RevisitsUpTo(n) ==
  IF n < 2 THEN <<>>
  ELSE IF IsRevisit(output[n]) /\ ~IsRevisit(archive[n])
       THEN Append(RevisitsUpTo(n - 1), n)
       ELSE RevisitsUpTo(n - 1)

\* C6: the audit log holds, in archive order, exactly one entry per record
\* rewritten into a revisit, naming that record's id, target URI and date
\* and the id, target URI and date of the index entry of its digest.
C6_AuditLog ==
  LET revs == RevisitsUpTo(Len(output)) IN
    /\ Len(dedup_log) = Len(revs)
    /\ \A n \in 1..Len(revs) :
          LET d == archive[revs[n]]
              o == hashes[<<DigestValue(d)>>]
              e == dedup_log[n]
          IN  /\ e[2] = d.header["WARC-Record-ID"]
              /\ e[4] = d.header["WARC-Target-URI"]
              /\ e[6] = d.header["WARC-Date"]
              /\ e[8] = o[1] /\ e[10] = o[3] /\ e[12] = o[2]
              /\ o = Entry(archive[FirstOf(revs[n])])

\* C6, reached: two revisits have been logged after a first occurrence
C6_Witness == Len(dedup_log) = 2 /\ Len(output) = 4

\* C6, reached as well: an untouched duplicate and a request have been
\* written and the log is empty
C6_NoEntryWitness ==
  /\ dedup_log = <<>>
  /\ \E i \in 2..Len(output) : IsDuplicate(i) /\ output[i] = archive[i]
  /\ \E i \in 2..Len(output) : ~IsResponse(archive[i])

-----------------------------------------------------------------------------
\* the record the step writes is not a response, or is the first response
\* with its digest
PassesThrough(i) == ~IsResponse(archive[i]) \/ IsFirst(i)

\* C7: a step that writes a record that is not a response, or is the first
\* response with its digest, writes it with the header and payload it was
\* read with and leaves the audit log as it was.
C7_PassThrough ==
  [][(pos >= 1 /\ Len(output') = Len(output) + 1 /\ PassesThrough(pos + 1)) =>
       (output'[Len(output')] = archive[pos + 1] /\ dedup_log' = dedup_log)]_vars

\* C7, reached: a first occurrence, a revisit of it and then a request have
\* been written, with the one log entry of the revisit
C7_Witness ==
  /\ Len(dedup_log) = 1
  /\ \E i, j \in 2..Len(output) :
        /\ i < j /\ IsRevisit(output[i]) /\ IsFirst(FirstOf(i))
        /\ ~IsResponse(archive[j]) /\ output[j] = archive[j]

-----------------------------------------------------------------------------
\* C8: a response without a WARC-Payload-Digest field does not end the pass:
\* once read it is written as it was read, and the index and the audit log
\* are as the records before it left them.
C8_MissingDigestPassesThrough ==
  \A i \in 2..pos :
     (IsResponse(archive[i]) /\ ~HasDigest(archive[i])) =>
        /\ pc # "failed"
        /\ Written(i) /\ output[i] = archive[i]

-----------------------------------------------------------------------------
\* C9: while no exception has ended the pass the output holds one record
\* per record read, the i-th carrying the WARC-Record-ID of the i-th input
\* record, and the loop is left only when every input record is written.
C9_OrderAndCount ==
  /\ pc # "failed" => Len(output) = pos
  /\ Len(output) <= Len(archive)
  /\ \A i \in 1..Len(output) :
        output[i].header["WARC-Record-ID"] = archive[i].header["WARC-Record-ID"]
  /\ pc \in {"log", "done"} => Len(output) = Len(archive)

\* C9, reached: a pass over four records, one of them rewritten, has ended
C9_Witness == pc = "done" /\ Len(output) = 4 /\ Len(dedup_log) = 1

-----------------------------------------------------------------------------
\* C10: the first record written is the first record read with WARC-Filename
\* naming the deduplicated archive, without WARC-Block-Digest and with its
\* payload; its record id is in no index entry and no audit entry, and it
\* is written once.
C10_InfoRecord ==
  Len(output) >= 1 =>
    LET id == archive[1].header["WARC-Record-ID"] IN
      /\ output[1].header["WARC-Record-ID"] = id
      /\ output[1].header["WARC-Type"] = archive[1].header["WARC-Type"]
      /\ output[1].header["WARC-Filename"]
           = <<warc_file_base, "-deduplicated.warc.gz">>
      /\ "WARC-Block-Digest" \notin DOMAIN output[1].header
      /\ output[1].payload = archive[1].payload
      /\ \A k \in DOMAIN hashes : hashes[k][1] # id
      /\ \A n \in 1..Len(dedup_log) : dedup_log[n][2] # id /\ dedup_log[n][8] # id
      /\ \A i \in 2..Len(output) : output[i].header["WARC-Record-ID"] # id

\* C10, reached: the info record and records after it have been written and
\* the index is not empty
C10_Witness ==
  /\ Len(output) >= 3
  /\ "WARC-Block-Digest" \in DOMAIN archive[1].header
  /\ DOMAIN hashes # {}

-----------------------------------------------------------------------------
\* the letter cases of the field name that C11 lists
Spellings == {"Content-Length", "content-length", "CONTENT-LENGTH", "Content-length"}

\* the embedded header block has the field name: 0, name spelled as given
DeclaresZeroAs(payload, name) ==
  LET ls == BeforeBlank(SplitLines(payload)) IN
    \E n \in 1..Len(ls) : Strip(ls[n]) = <<name, SEP, "0">>

\* C11: a written duplicate whose embedded header block has a
\* content-length field of value 0, in whichever of the letter cases, is not
\* a revisit record.
C11_AnyLetterCase ==
  \A i \in 2..Len(output) : \A name \in Spellings :
     (IsDuplicate(i) /\ DeclaresZeroAs(archive[i].payload, name)) =>
        ~IsRevisit(output[i])

-----------------------------------------------------------------------------
\* the payload has no empty line
NoBlankLine(payload) ==
  \A n \in 1..Len(SplitLines(payload)) : SplitLines(payload)[n] # <<>>

\* some line of the payload contains 'Content-Length: 0' or
\* 'content-length: 0'
MentionsZero(payload) ==
  \E n \in 1..Len(SplitLines(payload)) :
     \/ Contains(<<"Content-Length", SEP, "0">>, SplitLines(payload)[n])
     \/ Contains(<<"content-length", SEP, "0">>, SplitLines(payload)[n])

\* C12 as stated: a written duplicate whose payload has no empty line is a
\* revisit record, whatever its lines hold.
C12_NoBlankLineAlwaysRevisit ==
  \A i \in 2..Len(output) :
     (IsDuplicate(i) /\ NoBlankLine(archive[i].payload)) => IsRevisit(output[i])

\* C12, amended: a written duplicate whose payload has no empty line is a
\* revisit record referring to the first occurrence unless one of its lines
\* contains 'Content-Length: 0' or 'content-length: 0'; then it is written
\* as it was read.
C12_NoBlankLineRevisitUnlessZero ==
  \A i \in 2..Len(output) :
     (IsDuplicate(i) /\ NoBlankLine(archive[i].payload)) =>
        IF MentionsZero(archive[i].payload)
          THEN output[i] = archive[i]
          ELSE IsRevisit(output[i]) /\ RefersTo(output[i], archive[FirstOf(i)])

\* C12, reached: of two written duplicates without an empty line one is a
\* revisit and the other, which reads 'Content-Length: 0', is not
C12_Witness ==
  \E i, j \in 2..Len(output) :
     /\ IsDuplicate(i) /\ NoBlankLine(archive[i].payload) /\ IsRevisit(output[i])
     /\ IsDuplicate(j) /\ NoBlankLine(archive[j].payload)
     /\ MentionsZero(archive[j].payload) /\ ~IsRevisit(output[j])

-----------------------------------------------------------------------------
\* C13: once process has returned or has been ended by an exception, the
\* input archive stream and the output archive stream are closed.
C13_StreamsReleased ==
  pc \in {"done", "failed"} => open_streams \cap {"warc_input", "warc_output"} = {}

-----------------------------------------------------------------------------
\* C14: no step is taken once an exception has ended the pass (nothing more
\* is read, written or retried); after such an end the record that raised it
\* is not written and deduplicate.log is not written; and deduplicate.log
\* is written only when every input record has been written to the output.
C14_AbortAndFlush ==
  [][/\ pc # "failed"
     /\ logfile'.written => (pc' = "done" /\ Len(output') = Len(archive'))
     /\ pc' = "failed" => (~logfile'.written /\ Len(output') = pos' - 1)]_vars

\* C14, reached: an exception has ended the pass at a record after the info
\* record, with records left unread behind it
C14_Witness ==
  /\ pc = "failed"
  /\ 1 < pos /\ pos < Len(archive)
  /\ Len(output) = pos - 1
  /\ ~logfile.written

-----------------------------------------------------------------------------
\* C15: every pass ends: by an exception, or with the position at the size
\* of the input and deduplicate.log written.
C15_Terminates ==
  <>(\/ pc = "failed"
     \/ (pc = "done" /\ Tell = warc_input_size /\ logfile.written))

\* C15, reached: a pass over an info record and three records has returned
C15_Witness ==
  pc = "done" /\ pos = Len(archive) /\ Len(archive) = 4 /\ logfile.written

-----------------------------------------------------------------------------
\* C16: every written record that was rewritten into a revisit refers to
\* the record id of a record written strictly before it that is a response,
\* is the first response with its digest and is written as it was read.
C16_RevisitsReferBack ==
  \A i \in 2..Len(output) :
     (IsRevisit(output[i]) /\ ~IsRevisit(archive[i])) =>
        \E j \in 2..(i - 1) :
           /\ output[j].header["WARC-Record-ID"] = output[i].header["WARC-Refers-To"]
           /\ output[j].header["WARC-Type"] = "response"
           /\ IsFirst(j)
           /\ output[j] = archive[j]

\* C16, reached: a revisit has been written after a first occurrence and an
\* untouched duplicate of the same digest
C16_Witness ==
  /\ Len(output) = 4
  /\ IsFirst(2)
  /\ IsDuplicate(3) /\ FirstOf(3) = 2 /\ output[3] = archive[3]
  /\ IsDuplicate(4) /\ FirstOf(4) = 2 /\ IsRevisit(output[4])

-----------------------------------------------------------------------------
\* C17: a written record that has a WARC-Block-Digest has the payload it
\* was read with, of which the field is the digest; the info record and the
\* records rewritten into revisits are written without the field.
C17_BlockDigestValid ==
  \A i \in 1..Len(output) :
     /\ "WARC-Block-Digest" \in DOMAIN output[i].header =>
          /\ output[i].payload = archive[i].payload
          /\ output[i].header["WARC-Block-Digest"] = DigestOf(output[i].payload)
     /\ (i = 1 \/ output[i].payload # archive[i].payload
               \/ (IsRevisit(output[i]) /\ ~IsRevisit(archive[i]))) =>
          "WARC-Block-Digest" \notin DOMAIN output[i].header

\* C17, reached: a revisit with a shortened payload and a duplicate that
\* keeps its block digest have been written
C17_Witness ==
  /\ \E i \in 2..Len(output) :
        IsRevisit(output[i]) /\ output[i].payload # archive[i].payload
  /\ \E i \in 2..Len(output) :
        IsDuplicate(i) /\ "WARC-Block-Digest" \in DOMAIN output[i].header

-----------------------------------------------------------------------------
\* C18: for each image at most 15 requests are issued; while the loop runs
\* every request so far was answered 418 and took one try; the loop is left
\* by the first other answer, which is 200 with a body or 404, or raises
\* 'Something went wrong' for any other; 'Failed to brew coffee' is raised
\* exactly after 15 answers of 418; an image answered 404 adds no target.
C18_BoundedRetry ==
  /\ requests <= MaxTries /\ tries <= MaxTries
  /\ rpc = "loop" => requests = tries
  /\ (rpc = "loop" /\ tries > 0) => response.status = 418
  /\ rpc = "found" =>
       /\ requests = tries + 1
       /\ response.status \in {200, 404}
       /\ (response.status = 404 \/ response.text # "")
  /\ raised = "Failed to brew coffee with flickr... :(" =>
       (tries = 15 /\ requests = 15 /\ response.status = 418)
  /\ raised = "Something went wrong... ABORTING" =>
       /\ requests = tries + 1
       /\ response.status \notin {418, 404}
       /\ (response.status # 200 \/ response.text = "")
  /\ Len(targets) = Cardinality({k \in 1..Len(outcomes) : outcomes[k] # 404})
  /\ \A n \in 1..Len(targets) : outcomes[targets[n]] = 200

\* C18, reached: the first image was answered 404 and added no target, the
\* second was answered 418 fifteen times and the lookup has given up
C18_Witness ==
  /\ outcomes = <<404>>
  /\ targets = << >>
  /\ image = 2
  /\ requests = 15
  /\ raised = "Failed to brew coffee with flickr... :("

====
